---- MODULE Spec2Model ----
(***************************************************************************)
(* img-dl: imgdl(url[], options), the bulk download; imgdl(url, options),  *)
(* the download of one image; parseImageParams and download.               *)
(*                                                                         *)
(* The model follows src/unnamed/part_022 (imgdl), the parseImageParams    *)
(* and download of src/unnamed/part_019 (lines 215-370), the PQueue        *)
(* (p-queue 8) that imgdl schedules its tasks with, and the runner of the  *)
(* command line of src/unnamed/part_023.                                   *)
(*                                                                         *)
(* A file name is kept as its stem and the list of its trailing " (n)"     *)
(* groups: [base |-> "a", sfx |-> <<1, 2>>] is the text "a (1) (2)".  A    *)
(* base never ends in " (n)" itself, so two names are the same text        *)
(* exactly when they are the same record.                                  *)
(***************************************************************************)
EXTENDS Integers, Sequences, FiniteSets, TLC

\* ------------------------------------------------------------------ bounds
MaxItems == 3
MaxStep == 2
MaxCalls == 2
MaxIndex == 2

\* ------------------------------------------------------- program constants
DEFAULT_STEP == 5
DEFAULT_NAME == "image"
DEFAULT_EXTENSION == "jpg"
DEFAULT_MAX_RETRY == 2
imageExtensions == {"jpg", "png"}

\* new Set([...Object.keys(sharp.format), 'jpg'])
sharpExtensions == {"jpg", "jpeg", "png", "webp"}

None == "undefined"

\* --------------------------------------------------------------- file names
PlainName(b) == [base |-> b, sfx |-> <<>>]
EmptyName == PlainName("")

Front(s) == SubSeq(s, 1, Len(s) - 1)

\* img.name.match(/ \((\d+)\)$/) : does the name end in " (n)"
HasSuffix(name) == Len(name.sfx) > 0

\* Faulty variant: the number of the suffix is counted down
NextNumDown(name) == IF HasSuffix(name) THEN name.sfx[Len(name.sfx)] - 1 ELSE 1

\* match ? parseInt(match[1], 10) + 1 : 1
NextNum(name) == IF HasSuffix(name) THEN name.sfx[Len(name.sfx)] + 1 ELSE 1

\* img.name.replace(/ \(\d+\)$/, '')
StripSuffix(name) ==
    IF HasSuffix(name) THEN [name EXCEPT !.sfx = Front(@)] ELSE name

\* name + ` (${num})`
AddSuffix(name, num) == [name EXCEPT !.sfx = Append(@, num)]

\* Faulty variant: the new suffix is appended to the old one
IncrementStacked(name) == AddSuffix(name, NextNum(name))

\* one pass of the body of the collision loop
Increment(name) == AddSuffix(StripSuffix(name), NextNum(name))

\* path.join(img.directory, `${img.name}.${img.extension}`)
PathOf(directory, name, extension) ==
    [dir |-> directory, name |-> name, ext |-> extension]

\* fs.existsSync(path)
ExistsSync(files, p) == p \in files

\* Faulty variant: the name is suffixed once and not looked up again
UniqueNameOnce(files, directory, name, extension) ==
    IF ExistsSync(files, PathOf(directory, name, extension))
    THEN Increment(name)
    ELSE name

\* while (fs.existsSync(...)) { ... } : the first free name
RECURSIVE UniqueName(_, _, _, _)
UniqueName(files, directory, name, extension) ==
    IF ExistsSync(files, PathOf(directory, name, extension))
    THEN UniqueName(files, directory, Increment(name), extension)
    ELSE name

\* ------------------------------------------------------------------- URLs
\* A URL string is kept as what `new URL(url)` makes of it: whether it
\* parses, its protocol, and the base name and extension of its pathname
\* (ext = "" when the path has no suffix).
\* An item of the list is the URL with the image options given with it
\* ({ url, directory?, name?, extension? }); a plain string gives none.
Url(h, ok, proto, b, e) ==
    [href |-> h, parses |-> ok, protocol |-> proto, base |-> b, ext |-> e,
     name |-> EmptyName, extension |-> "", directory |-> ""]

UrlA == Url("http://h/a.jpg", TRUE, "http:", "a", "jpg")
UrlNoExt == Url("http://h/photo", TRUE, "http:", "photo", "")
UrlBad == Url("not-a-url", FALSE, "", "", "")
UrlFtp == Url("ftp://h/a.jpg", TRUE, "ftp:", "a", "jpg")
UrlPdf == Url("http://h/a.pdf", TRUE, "http:", "a", "pdf")
UrlUpper == Url("http://h/a.PNG", TRUE, "http:", "a", "PNG")

Urls == {UrlA, UrlNoExt, UrlBad}

Cwd == "."

\* ------------------------------------------------------- parseImageParams
ArgumentError == [error |-> "ArgumentError"]

IsError(r) == "error" \in DOMAIN r

\* String.prototype.toLowerCase on the extensions of the model
ToLowerCase(e) ==
    CASE e = "PNG" -> "png"
      [] e = "Png" -> "png"
      [] e = "TXT" -> "txt"
      [] OTHER -> e

\* originalExt = path.extname(validUrl.pathname).replace('.', '').toLowerCase()
\* originalExtension: originalExt === '' ? undefined : originalExt
OriginalExtension(u) == IF u.ext = "" THEN None ELSE ToLowerCase(u.ext)

\* originalName: path.basename(validUrl.pathname, `.${originalExt}`), which
\* takes the suffix off only when it is written as originalExt is, in lower
\* case: the original name of /a.PNG is a.PNG.
OriginalName(u) ==
    IF u.ext = "" THEN None
    ELSE IF ToLowerCase(u.ext) = u.ext THEN u.base
    ELSE u.base \o "." \o u.ext

\* The one-character name U+00A0 (no-break space): white space to trim(),
\* an ordinary character to sanitize().
NoBreakSpace == "U+00A0"

\* sanitize(name) of sanitize-filename, on the names of the model: the
\* characters / ? < > \ : * | " and the control characters are taken out,
\* and so are the dots and spaces a name ends in.
sanitize(name) ==
    CASE name.base = "a/b" -> [name EXCEPT !.base = "ab"]
      [] name.base = "a:b" -> [name EXCEPT !.base = "ab"]
      [] name.base = "a " /\ name.sfx = <<>> -> [name EXCEPT !.base = "a"]
      [] OTHER -> name

\* img.name.trim()
trim(name) ==
    CASE name.base = NoBreakSpace /\ name.sfx = <<>> -> EmptyName
      [] name.base = "a " /\ name.sfx = <<>> -> [name EXCEPT !.base = "a"]
      [] OTHER -> name

\* Faulty variant: the name of the URL is preferred to the name option
ResolveNameOriginalFirst(u, opts) ==
    IF OriginalName(u) # None THEN PlainName(OriginalName(u))
    ELSE IF opts.name # EmptyName THEN opts.name
    ELSE PlainName(DEFAULT_NAME)

\* if (options?.name) img.name = options.name;
\* if (img.name.trim() === '') img.name = img.originalName || DEFAULT_NAME;
ResolveName(u, opts) ==
    IF trim(opts.name) # EmptyName THEN opts.name
    ELSE IF OriginalName(u) # None THEN PlainName(OriginalName(u))
    ELSE PlainName(DEFAULT_NAME)

\* Faulty variant: the extension of the options is stored as it is written
ResolveExtensionAsWritten(u, opts) ==
    IF opts.extension # "" THEN opts.extension
    ELSE IF OriginalExtension(u) # None THEN OriginalExtension(u)
    ELSE DEFAULT_EXTENSION

\* Faulty variant: the default extension is preferred to the one of the URL
ResolveExtensionDefaultFirst(u, opts) ==
    IF opts.extension # "" THEN ToLowerCase(opts.extension)
    ELSE DEFAULT_EXTENSION

\* if (options?.extension) ...; if (img.extension === '') ...
ResolveExtension(u, opts) ==
    IF opts.extension # "" THEN ToLowerCase(opts.extension)
    ELSE IF OriginalExtension(u) # None THEN OriginalExtension(u)
    ELSE DEFAULT_EXTENSION

\* path.resolve(options?.directory || '.')
ResolveDirectory(opts) == IF opts.directory # "" THEN opts.directory ELSE Cwd

\* Faulty variant: any protocol a URL can have is taken
ProtocolAllowedAny(u) == TRUE

\* ['http:', 'https:'].includes(validUrl.protocol)
ProtocolAllowed(u) == u.protocol \in {"http:", "https:"}

\* Faulty variant: the suffix of the path of the URL is not looked at
OriginalSupportedOrIgnored(u) == TRUE

\* !(originalExt.length && !imageExtensions.has(originalExt))
OriginalSupported(u) == u.ext = "" \/ ToLowerCase(u.ext) \in imageExtensions

\* !(sanitize(img.name) !== img.name)
NameAllowed(opts) == sanitize(opts.name) = opts.name

\* !(options?.extension && !sharpExtensions.has(options.extension)), after
\* options.extension = options.extension.toLowerCase()
ExtensionSupported(opts) ==
    opts.extension = "" \/ ToLowerCase(opts.extension) \in sharpExtensions

parseImageParams(u, opts, files) ==
    IF ~u.parses THEN ArgumentError
    ELSE IF ~ProtocolAllowed(u) THEN ArgumentError
    ELSE IF ~OriginalSupported(u) THEN ArgumentError
    ELSE IF ~NameAllowed(opts) THEN ArgumentError
    ELSE IF ~ExtensionSupported(opts) THEN ArgumentError
    ELSE LET dir == ResolveDirectory(opts)
             ext == ResolveExtension(u, opts)
             nm == UniqueName(files, dir, ResolveName(u, opts), ext)
         IN [url |-> u.href, name |-> nm, extension |-> ext, directory |-> dir,
             originalName |-> OriginalName(u),
             originalExtension |-> OriginalExtension(u),
             path |-> PathOf(dir, nm, ext)]

\* options.extension = options.extension.toLowerCase(): what a call leaves in
\* the options object of the caller, also when it throws after that line.
OptionsAfterParse(u, opts) ==
    IF u.parses /\ ProtocolAllowed(u) /\ OriginalSupported(u) /\ NameAllowed(opts)
       /\ opts.extension # ""
    THEN [opts EXCEPT !.extension = ToLowerCase(@)]
    ELSE opts

\* The image options of one item of the list: each of directory, name and
\* extension is the item's own when the item sets it, the one of the
\* options of the call otherwise.
ItemOptions(item, opts) ==
    [opts EXCEPT !.name = IF item.name # EmptyName THEN item.name ELSE @,
                 !.extension = IF item.extension # "" THEN item.extension ELSE @,
                 !.directory = IF item.directory # "" THEN item.directory ELSE @]

\* { url, name, extension, directory }: an item with options of its own
WithOptions(u, nm, e, d) ==
    [u EXCEPT !.name = nm, !.extension = e, !.directory = d]

\* Faulty variant: a call that keeps its path by creating the file
FilesAfterParseReserved(files, r) ==
    IF IsError(r) THEN files ELSE files \cup {r.path}

\* The files after a call: parseImageParams only looks (fs.existsSync), it
\* creates nothing.
FilesAfterParse(files, r) == files

\* ------------------------------------------------------------------ PQueue
\* new PQueue({ concurrency: step, interval, intervalCap: step })
\* options.step is <<>> when the caller leaves it out, <<n>> when it is n.
Concurrency(opts) == IF opts.step = <<>> THEN DEFAULT_STEP ELSE opts.step[1]
IntervalCap(opts) == IF opts.step = <<>> THEN DEFAULT_STEP ELSE opts.step[1]

\* The queue's counters, with the tasks one synchronous run of the queue
\* starts (their function is called) and the tasks whose signal is found
\* aborted when they are taken from the queue (their add() promise rejects).
QueueState(q, p, c) ==
    [queue |-> q, pending |-> p, intervalCount |-> c, started |-> {}, thrown |-> {}]

doesIntervalAllowAnother(q, opts) == q.intervalCount < IntervalCap(opts)

\* Faulty variant: the slot test off by one
doesConcurrentAllowAnotherOffByOne(q, opts) == q.pending <= Concurrency(opts)

doesConcurrentAllowAnother(q, opts) == q.pending < Concurrency(opts)

\* Faulty variant: a queue that does not look at the signal of the task it takes
tryToStartAnotherUnchecked(q, opts, ab) ==
    IF q.queue = <<>> THEN q
    ELSE IF doesIntervalAllowAnother(q, opts) /\ doesConcurrentAllowAnother(q, opts)
    THEN [q EXCEPT !.queue = Tail(@), !.intervalCount = @ + 1,
                   !.pending = @ + 1, !.started = @ \cup {Head(q.queue)}]
    ELSE q

\* Faulty variant: a queue that takes the task that was added last
tryToStartAnotherLast(q, opts, ab) ==
    IF q.queue = <<>> THEN q
    ELSE IF doesIntervalAllowAnother(q, opts) /\ doesConcurrentAllowAnother(q, opts)
    THEN LET n == Len(q.queue)
             job == q.queue[n]
             q1 == [q EXCEPT !.queue = SubSeq(@, 1, n - 1), !.intervalCount = @ + 1]
         IN IF ab
            THEN [q1 EXCEPT !.thrown = @ \cup {job}]
            ELSE [q1 EXCEPT !.pending = @ + 1, !.started = @ \cup {job}]
    ELSE q

\* A task taken from the queue: pending++, intervalCount++, then either
\* signal.throwIfAborted() throws, add() rejects and the finally block's
\* next() gives the slot back and tries the following task at once, or the
\* task function is called and keeps its slot until it settles.
RECURSIVE tryToStartAnother(_, _, _)
tryToStartAnother(q, opts, ab) ==
    IF q.queue = <<>> THEN q
    ELSE IF doesIntervalAllowAnother(q, opts) /\ doesConcurrentAllowAnother(q, opts)
    THEN LET job == Head(q.queue)
             q1 == [q EXCEPT !.queue = Tail(@), !.intervalCount = @ + 1]
         IN IF ab
            THEN tryToStartAnother([q1 EXCEPT !.thrown = @ \cup {job}], opts, ab)
            ELSE [q1 EXCEPT !.pending = @ + 1, !.started = @ \cup {job}]
    ELSE q

\* while (this.#tryToStartAnother()) {}
RECURSIVE processQueue(_, _, _)
processQueue(q, opts, ab) ==
    LET q1 == tryToStartAnother(q, opts, ab)
    IN IF q1 = q THEN q ELSE processQueue(q1, opts, ab)

\* Faulty variant: a task that ends without giving its slot back
nextKeepsSlot(q, opts, ab) == tryToStartAnother(q, opts, ab)

\* next(): pending--, tryToStartAnother()
next(q, opts, ab) == tryToStartAnother([q EXCEPT !.pending = @ - 1], opts, ab)

\* 'idle' is emitted when the queue is empty and nothing is pending
IsIdle(q) == q.queue = <<>> /\ q.pending = 0

\* ------------------------------------------------------------------- imgdl
\* const nameKey = `${img.name}.${img.extension}`
NameKey(im) == <<im.name, im.extension>>

\* countNames.get(nameKey)
CountOf(counts, key) == IF key \in DOMAIN counts THEN counts[key] ELSE 0

\* Faulty variant: a counter that is set but never incremented
CountSetOnce(counts, key) ==
    [x \in DOMAIN counts \cup {key} |-> IF x = key THEN 1 ELSE counts[x]]

\* countNames.set(nameKey, (count || 0) + 1)
CountSet(counts, key) ==
    [x \in DOMAIN counts \cup {key} |->
        IF x = key THEN CountOf(counts, key) + 1 ELSE counts[x]]

\* Faulty variant: the counter is kept but the name is not changed
BatchNameKept(im, count) == im

\* if (count) { img.name = `${img.name} (${count})`; img.path = ... }
BatchName(im, count) ==
    IF count # 0
    THEN [im EXCEPT !.name = AddSuffix(im.name, count),
                    !.path = PathOf(im.directory, AddSuffix(im.name, count),
                                    im.extension)]
    ELSE im

\* What the settling of the promise of imgdl leaves it as: only the first
\* resolve/reject counts.
Settle(p, to) == IF p = "pending" THEN to ELSE p

VARIABLES
    url,            \* the input list
    options,        \* the options of the call
    existing,       \* the files on disk when imgdl is called
    given,          \* the options object as the caller filled it in
    disk,           \* the files on disk now
    pc,             \* "forEach": inside url.forEach; "running": after it
    k,              \* the index url.forEach is at
    countNames,     \* the name counter of the batch
    img,            \* img[i]: the target of item i, NoImage before it is parsed
    phase,          \* phase[i]: where the download of item i is
    slot,           \* the items whose task holds a slot of the queue
    queue,          \* the tasks waiting in the queue
    pending,        \* PQueue #pending
    intervalCount,  \* PQueue #intervalCount
    aborted,        \* options.signal.aborted
    promise,        \* the promise imgdl returned
    reason,         \* what it rejected with
    images,         \* the list it resolves with
    idleWait,       \* queue.onIdle() is waiting for 'idle'
    successCalls,   \* successCalls[i]: the calls of onSuccess for item i
    errorCalls,     \* errorCalls[i]: the calls of onError for item i
    downloadCalls,  \* downloadCalls[i]: the calls of download for item i
    outcome,        \* outcome[i]: how the download of item i ended
    okBefore,       \* the items whose download succeeded before the abort
    failedFast,     \* a download of the batch has failed with DirectoryError
    calls,          \* what the direct calls of parseImageParams returned
    dl,             \* the download of imgdl(url, options), one image
    errorLog,       \* the lines of error.log, as [item, error]
    run,            \* the promise of the runner of the command line
    runReason,      \* what it rejected with
    exitCode,       \* the exit code of the process: <<>> while it runs, <<n>>
    input,          \* the URLs of the command line, each as its pieces
    flags,          \* --increment, --start, --end
    sources         \* what generateDownloadUrls returned

vars == <<url, options, existing, given, disk, pc, k, countNames, img, phase, slot,
          queue, pending, intervalCount, aborted, promise, reason, images,
          idleWait, successCalls, errorCalls, downloadCalls, outcome, okBefore,
          failedFast, calls, dl, errorLog, run, runReason, exitCode, input,
          flags, sources>>

Items == 1..Len(url)

Inputs == <<url, options, existing, given>>

\* what the bulk download leaves alone
Single == <<calls, dl>>

\* what belongs to the command line
Cli == <<errorLog, run, runReason, exitCode>>

\* the arguments of the command line and the list made of them
CommandLine == <<input, flags, sources>>

Q == QueueState(queue, pending, intervalCount)

\* Faulty variant: a download that opens its streams in the call itself,
\* with no await before them
QueueApplyFromOpened(ph, q) ==
    /\ queue' = q.queue
    /\ pending' = q.pending
    /\ intervalCount' = q.intervalCount
    /\ phase' = [i \in DOMAIN ph |->
                    IF i \in q.started THEN "streaming"
                    ELSE IF i \in q.thrown THEN "cancelled"
                    ELSE ph[i]]
    /\ downloadCalls' = [i \in DOMAIN downloadCalls |->
                    IF i \in q.started THEN downloadCalls[i] + 1
                    ELSE downloadCalls[i]]

\* The effect of one synchronous run of the queue on the items: a started
\* task calls download(img, ...), which runs up to its first await.
QueueApplyFrom(ph, q) ==
    /\ queue' = q.queue
    /\ pending' = q.pending
    /\ intervalCount' = q.intervalCount
    /\ phase' = [i \in DOMAIN ph |->
                    IF i \in q.started THEN "directory"
                    ELSE IF i \in q.thrown THEN "cancelled"
                    ELSE ph[i]]
    /\ downloadCalls' = [i \in DOMAIN downloadCalls |->
                    IF i \in q.started THEN downloadCalls[i] + 1
                    ELSE downloadCalls[i]]

\* -------------------------------------------------------------------- Init
SeqsUpTo(S, n) == UNION {[1..m -> S] : m \in 0..n}

Steps == {<<>>} \cup {<<n>> : n \in 1..MaxStep}

\* options.signal is kept as what it is when imgdl is called ("aborted" or
\* "active"); `aborted` follows it from there.
OptionsOf(st, nm, handler, sig) ==
    [step |-> st, name |-> nm, extension |-> "", directory |-> "",
     onError |-> handler, signal |-> sig]

FileA == PathOf(Cwd, PlainName("a"), "jpg")
FileA1 == PathOf(Cwd, AddSuffix(PlainName("a"), 1), "jpg")
FileA2 == PathOf(Cwd, AddSuffix(PlainName("a"), 2), "jpg")

\* the target of an item that has not been resolved
NoImage ==
    [url |-> None, name |-> EmptyName, extension |-> "", directory |-> "",
     originalName |-> None, originalExtension |-> None,
     path |-> PathOf("", EmptyName, "")]

\* download(img, options) before its first step
DownloadIdle ==
    [stage |-> "idle", requests |-> 0, response |-> None, error |-> None,
     oserror |-> None, message |-> None]

\* flags of a command line without --increment, --start and --end
NoFlags == [increment |-> FALSE, start |-> <<>>, end |-> <<>>]

\* the list before generateDownloadUrls has been called
NoSources == [urls |-> <<>>]

\* The state when a call begins; `at` is the entry point: "forEach" for
\* imgdl(url[]), "single" for imgdl(url), "parse" for parseImageParams,
\* "runner" for the command line, "generate" for generateDownloadUrls.
InitStateWith(urls, opts, files, at, inp, fl) ==
    /\ input = inp
    /\ flags = fl
    /\ sources = NoSources
    /\ url = urls
    /\ options = opts
    /\ existing = files
    /\ given = opts
    /\ disk = files
    /\ pc = at
    /\ calls = <<>>
    /\ dl = DownloadIdle
    /\ k = 1
    /\ countNames = <<>>
    /\ img = [i \in 1..Len(urls) |-> NoImage]
    /\ phase = [i \in 1..Len(urls) |-> "unparsed"]
    /\ slot = {}
    /\ queue = <<>>
    /\ pending = 0
    /\ intervalCount = 0
    /\ aborted = (opts.signal = "aborted")
    /\ promise = "pending"
    /\ reason = None
    /\ images = <<>>
    /\ idleWait = FALSE
    /\ successCalls = [i \in 1..Len(urls) |-> 0]
    /\ errorCalls = [i \in 1..Len(urls) |-> 0]
    /\ downloadCalls = [i \in 1..Len(urls) |-> 0]
    /\ outcome = [i \in 1..Len(urls) |-> None]
    /\ okBefore = {}
    /\ failedFast = FALSE
    /\ errorLog = <<>>
    /\ run = "pending"
    /\ runReason = None
    /\ exitCode = <<>>

\* a call that is not made from the command line, or one of plain URLs
InitState(urls, opts, files, at) ==
    InitStateWith(urls, opts, files, at,
                  [i \in 1..Len(urls) |-> <<urls[i].href>>], NoFlags)

InitWith(urls, opts, files) == InitState(urls, opts, files, "forEach")

FileImage == PathOf(Cwd, PlainName(DEFAULT_NAME), DEFAULT_EXTENSION)

UrlImage == Url("http://h/image.jpg", TRUE, "http:", "image", "jpg")

\* imgdl(url, options) is called with any list, step and handler, with or
\* without a file in the way, and with a signal that may be aborted already;
\* or with one item more than the default step and no step.
Init ==
    \/ \E urls \in SeqsUpTo(Urls, MaxItems), st \in Steps,
          handler \in {"returns", "throws"}, files \in {{}, {FileA1}},
          sig \in {"active", "aborted"} :
           InitWith(urls, OptionsOf(st, EmptyName, handler, sig), files)
    \/ InitWith([i \in 1..(DEFAULT_STEP + 1) |-> UrlA],
                OptionsOf(<<>>, EmptyName, "returns", "active"), {})

\* The calls that differ in what the names collide with: any files of the
\* directory, a name option with or without a " (n)" of its own, one
\* download at a time.
InitNames ==
    \E urls \in SeqsUpTo({UrlA, UrlImage, UrlNoExt}, MaxItems),
       nm \in {EmptyName, PlainName("a"), AddSuffix(PlainName("a"), 1)},
       files \in SUBSET {FileA, FileA1, FileA2, FileImage} :
        InitWith(urls, OptionsOf(<<1>>, nm, "returns", "active"), files)

\* ----------------------------------------------------------------- actions
\* One pass of url.forEach: parseImageParams, the name counter, queue.add.
\* A throw of parseImageParams leaves the executor: the promise rejects, the
\* items after it are never looked at and queue.onIdle() is never called.
ForEach ==
    /\ pc = "forEach"
    /\ k <= Len(url)
    /\ LET r == parseImageParams(url[k], ItemOptions(url[k], options), disk)
       IN IF IsError(r)
          THEN /\ pc' = "running"
               /\ promise' = Settle(promise, "rejected")
               /\ reason' = IF promise = "pending" THEN "ArgumentError" ELSE reason
               /\ UNCHANGED <<k, countNames, img, phase, queue, pending,
                              intervalCount, downloadCalls, slot>>
          ELSE LET count == CountOf(countNames, NameKey(r))
                   q == tryToStartAnother(
                            QueueState(Append(queue, k), pending, intervalCount),
                            options, aborted)
               IN /\ img' = [img EXCEPT ![k] = BatchName(r, count)]
                  /\ countNames' = CountSet(countNames, NameKey(r))
                  /\ k' = k + 1
                  /\ QueueApplyFrom([phase EXCEPT ![k] = "queued"], q)
                  /\ slot' = slot \cup q.started
                  /\ UNCHANGED <<pc, promise, reason>>
    /\ UNCHANGED <<Inputs, CommandLine, Cli, Single, failedFast, disk, aborted, images, idleWait, successCalls,
                   errorCalls, outcome, okBefore>>

\* The end of the executor: queue.onIdle().then(() => resolve(images)).  With
\* nothing pending and nothing queued onIdle() returns at once, and its
\* reaction runs before the reactions of the add() promises that the tasks
\* of an aborted signal rejected during forEach.
OnIdle ==
    /\ pc = "forEach"
    /\ k = Len(url) + 1
    /\ pc' = "running"
    /\ IF IsIdle(Q)
       THEN /\ promise' = Settle(promise, "resolved")
            /\ UNCHANGED <<idleWait, reason>>
       ELSE /\ idleWait' = TRUE
            /\ promise' = IF \E i \in Items : phase[i] = "cancelled"
                          THEN Settle(promise, "rejected") ELSE promise
            /\ reason' = IF \E i \in Items : phase[i] = "cancelled"
                         THEN "AbortError" ELSE reason
    /\ UNCHANGED <<Inputs, CommandLine, Cli, Single, failedFast, disk, k, countNames, img, phase, slot, queue,
                   pending, intervalCount, aborted, images, successCalls,
                   errorCalls, downloadCalls, outcome, okBefore>>

\* Faulty variant: a catch block that keeps what onError throws to itself
TaskResultSwallow(res, opts) == IF res = "ok" THEN "image" ELSE "undefined"

\* Faulty variant: a catch block that rethrows the error of download
TaskResultRethrow(res, opts) == IF res = "ok" THEN "image" ELSE "throws"

\* The task function of queue.add, once download(img) has ended with `res`:
\*   try { return await download(img, ...) }
\*   catch (error) { options?.onError?.(error, u); return undefined; }
\* It returns the image, returns undefined after onError, or throws what
\* onError threw.
TaskResult(res, opts) ==
    IF res = "ok" THEN "image"
    ELSE IF opts.onError = "throws" THEN "throws"
    ELSE "undefined"

\* The task of item i has settled: `res` is how download(img) ended.
\*   .then((image) => { if (image) { onSuccess(image); images.push(image) } })
\*   .catch((error) => { if (!(error instanceof CancelError)) reject(error) })
\* A task that still holds its slot settles its add() promise and gives the
\* slot back with next(); a task the abort took the slot from has lost the
\* race of its add() promise, and only what its function does is left.
TaskSettled(i, res) ==
    LET result == TaskResult(res, options)
        held == i \in slot
        q == IF held THEN next(Q, options, aborted) ELSE Q
    IN /\ errorCalls' = IF res = "error" THEN [errorCalls EXCEPT ![i] = @ + 1]
                        ELSE errorCalls
       /\ successCalls' = IF held /\ result = "image"
                          THEN [successCalls EXCEPT ![i] = @ + 1]
                          ELSE successCalls
       /\ images' = IF held /\ result = "image" THEN Append(images, i)
                    ELSE images
       /\ promise' = IF held /\ result = "throws" THEN Settle(promise, "rejected")
                     ELSE IF held /\ idleWait /\ IsIdle(q)
                     THEN Settle(promise, "resolved")
                     ELSE promise
       /\ reason' = IF held /\ result = "throws" /\ promise = "pending"
                    THEN "HandlerError" ELSE reason
       /\ QueueApplyFrom([phase EXCEPT ![i] = "settled"], q)
       /\ slot' = (slot \ {i}) \cup q.started
       /\ outcome' = [outcome EXCEPT ![i] = res]
       /\ okBefore' = IF res = "ok" /\ ~aborted THEN okBefore \cup {i}
                      ELSE okBefore

\* The onError of the command line's runner:
\*   if (error instanceof ArgumentError || error instanceof DirectoryError)
\*     return rejects(error);
\*   errorCount += 1; fs.appendFileSync(<dir>/error.log, one line)
RunnerOnError(i, error) ==
    IF error \in {"ArgumentError", "DirectoryError"}
    THEN /\ run' = Settle(run, "rejected")
         /\ runReason' = IF run = "pending" THEN error ELSE runReason
         /\ UNCHANGED errorLog
    ELSE /\ errorLog' = Append(errorLog, [item |-> i, error |-> error])
         /\ UNCHANGED <<run, runReason>>

\* options?.onError?.(error, u) in the catch block of the task: the handler
\* of the runner when the command line made the call, one of the caller's
\* (which only returns or throws) otherwise.
CallOnError(i, error) ==
    /\ IF options.onError = "runner" THEN RunnerOnError(i, error)
       ELSE UNCHANGED <<errorLog, run, runReason>>
    /\ UNCHANGED exitCode

\* download: the directory cannot be created or is not readable and writable
DirectoryFails(i) ==
    /\ i \in Items
    /\ pc = "running"
    /\ phase[i] = "directory"
    /\ TaskSettled(i, "error")
    /\ CallOnError(i, "DirectoryError")
    /\ failedFast' = TRUE
    /\ UNCHANGED <<Inputs, CommandLine, Single, disk, pc, k, countNames, img, aborted, idleWait>>

\* download: the directory is there; got.stream(img.url, { signal }) and
\* fs.createWriteStream(img.path), which creates the file.  A stream opened
\* with an aborted signal is destroyed at once.
OpenStreams(i) ==
    /\ i \in Items
    /\ pc = "running"
    /\ phase[i] = "directory"
    /\ phase' = [phase EXCEPT ![i] = IF aborted THEN "aborting" ELSE "streaming"]
    /\ disk' = disk \cup {img[i].path}
    /\ UNCHANGED <<Inputs, CommandLine, Cli, Single, failedFast, pc, k, countNames, img, slot, queue, pending,
                   intervalCount, aborted, promise, reason, images, idleWait,
                   successCalls, errorCalls, downloadCalls, outcome, okBefore>>

\* download: the request or the pipeline fails (network, status, not an
\* image, abort): onError removes the file and rejects.
StreamFails(i) ==
    /\ i \in Items
    /\ pc = "running"
    /\ phase[i] \in {"streaming", "aborting"}
    /\ disk' = disk \ {img[i].path}
    /\ TaskSettled(i, "error")
    /\ CallOnError(i, "RequestError")
    /\ UNCHANGED <<Inputs, CommandLine, Single, failedFast, pc, k, countNames, img, aborted, idleWait>>

\* download: the pipeline finishes, the promise resolves with img.  A
\* transfer whose response was read before the abort can still finish.
StreamEnds(i) ==
    /\ i \in Items
    /\ pc = "running"
    /\ phase[i] = "streaming"
    /\ TaskSettled(i, "ok")
    /\ UNCHANGED <<Inputs, CommandLine, Cli, Single, failedFast, disk, pc, k, countNames, img, aborted, idleWait>>

\* options.signal is aborted: every task holding a slot loses the race of
\* its add() promise against the signal, add() rejects with signal.reason,
\* which is no CancelError, so imgdl rejects; the slots are given back, and
\* the tasks taken from the queue from now on throw before they start.
Abort ==
    /\ pc = "running"
    /\ ~aborted
    /\ aborted' = TRUE
    /\ LET q == IF slot # {}
                THEN tryToStartAnother([Q EXCEPT !.pending = 0], options, TRUE)
                ELSE Q
       IN /\ QueueApplyFrom(phase, q)
          /\ promise' = IF slot # {} THEN Settle(promise, "rejected") ELSE promise
          /\ reason' = IF slot # {} /\ promise = "pending" THEN "AbortError"
                       ELSE reason
    /\ slot' = {}
    /\ UNCHANGED <<Inputs, CommandLine, Cli, Single, failedFast, disk, pc, k, countNames, img, images, idleWait,
                   successCalls, errorCalls, outcome, okBefore>>

\* The interval timer of the queue fires: intervalCount = 0, processQueue().
OnInterval ==
    /\ pc = "running"
    /\ queue # <<>>
    /\ LET q == processQueue([Q EXCEPT !.intervalCount = 0], options, aborted)
       IN /\ QueueApplyFrom(phase, q)
          /\ slot' = slot \cup q.started
          /\ promise' = IF q.thrown # {} THEN Settle(promise, "rejected")
                        ELSE promise
          /\ reason' = IF q.thrown # {} /\ promise = "pending" THEN "AbortError"
                       ELSE reason
    /\ UNCHANGED <<Inputs, CommandLine, Cli, Single, failedFast, disk, pc, k, countNames, img, aborted, images,
                   idleWait, successCalls, errorCalls, outcome, okBefore>>

Next ==
    \/ ForEach
    \/ OnIdle
    \/ \E i \in Items : DirectoryFails(i)
    \/ \E i \in Items : OpenStreams(i)
    \/ \E i \in Items : StreamFails(i)
    \/ \E i \in Items : StreamEnds(i)
    \/ Abort
    \/ OnInterval

Spec == Init /\ [][Next]_vars

SpecNames == InitNames /\ [][Next]_vars

\* The event loop runs what is ready: the executor runs to its end, a
\* download that was started ends one way or the other, the interval timer
\* of a queue that holds tasks fires.  Nothing makes the caller abort.
Fairness ==
    /\ WF_vars(ForEach)
    /\ WF_vars(OnIdle)
    /\ WF_vars(OnInterval)
    /\ \A i \in 1..MaxItems :
        /\ WF_vars(DirectoryFails(i) \/ OpenStreams(i))
        /\ WF_vars(StreamFails(i) \/ StreamEnds(i))

InitFair ==
    \E urls \in SeqsUpTo(Urls, MaxItems), st \in Steps,
       sig \in {"active", "aborted"} :
        InitWith(urls, OptionsOf(st, EmptyName, "returns", sig), {})

FairSpec == InitFair /\ [][Next]_vars /\ Fairness

\* The calls whose items carry options of their own, next to or instead of
\* the options of the call; one download at a time.
InitItems ==
    \E urls \in SeqsUpTo({UrlA,
                          WithOptions(UrlA, PlainName("mine"), "", ""),
                          WithOptions(UrlA, EmptyName, "webp", ""),
                          WithOptions(UrlNoExt, EmptyName, "", "own")}, MaxItems),
       nm \in {EmptyName, PlainName("all")},
       e \in {"", "png"},
       d \in {"", "out"} :
        InitWith(urls,
                 [OptionsOf(<<1>>, nm, "returns", "active")
                     EXCEPT !.extension = e, !.directory = d],
                 {})

SpecItems == InitItems /\ [][Next]_vars

\* ------------------------------------------------------- the command line
\* bootstrap().catch((error) => console.error(...)): the error is printed,
\* nothing sets process.exitCode and process.exit is not called.
ExitCode(status, error) == 0

\* A URL of the command line is kept as the pieces it is made of, the
\* placeholder being a piece of its own: http://h/img-{i}.jpg is
\* <<"http://h/img-", "{i}", ".jpg">>.
Placeholder == "{i}"

\* urls[0].includes('{i}')
includes(u) == \E n \in 1..Len(u) : u[n] = Placeholder

\* urls[0].replace('{i}', i.toString()): a string pattern, so the first
\* placeholder of the URL is replaced and no other
replace(u, i) ==
    IF ~includes(u) THEN u
    ELSE LET n == CHOOSE m \in 1..Len(u) :
                    u[m] = Placeholder /\ \A l \in 1..(m - 1) : u[l] # Placeholder
         IN [u EXCEPT ![n] = ToString(i)]

\* const { start = 0, end = 0 } = flags
FlagOr(flag, default) == IF flag = <<>> THEN default ELSE flag[1]

\* Faulty variant: the loop stops one index before the end
DownloadUrlsExclusive(u, i, end, downloadUrls) ==
    [n \in 1..(end - i) |-> replace(u, i + n - 1)]

\* for (let i = start; i <= end; i += 1) downloadUrls.push(...)
RECURSIVE DownloadUrls(_, _, _, _)
DownloadUrls(u, i, end, downloadUrls) ==
    IF i <= end
    THEN DownloadUrls(u, i + 1, end, Append(downloadUrls, replace(u, i)))
    ELSE downloadUrls

\* generateDownloadUrls(urls, flags): the list, or the ArgumentError thrown
generateDownloadUrls(urls, fl) ==
    IF ~fl.increment THEN [urls |-> urls]
    ELSE IF Len(urls) # 1 THEN ArgumentError
    ELSE IF ~includes(urls[1]) THEN ArgumentError
    ELSE LET start == FlagOr(fl.start, 0)
             end == FlagOr(fl.end, 0)
         IN IF start < 0 THEN ArgumentError
            ELSE IF start > end THEN ArgumentError
            ELSE [urls |-> DownloadUrls(urls[1], start, end, <<>>)]

\* runner(input, flags) up to the call of imgdl: the list of sources is
\* made with generateDownloadUrls and the headers of --header are checked;
\* one that is not `name: value` throws ArgumentError.
Runner ==
    /\ pc = "runner"
    /\ LET r == generateDownloadUrls(input, flags)
       IN IF IsError(r)
          THEN /\ pc' = "done"
               /\ run' = "rejected"
               /\ runReason' = "ArgumentError"
               /\ UNCHANGED sources
          ELSE /\ sources' = r
               /\ \E headerOk \in BOOLEAN :
                    IF headerOk
                    THEN /\ pc' = "forEach"
                         /\ UNCHANGED <<run, runReason>>
                    ELSE /\ pc' = "done"
                         /\ run' = "rejected"
                         /\ runReason' = "ArgumentError"
    /\ UNCHANGED <<Inputs, input, flags, Single, errorLog, exitCode, disk, k, countNames, img,
                   phase, slot, queue, pending, intervalCount, aborted, promise,
                   reason, images, idleWait, successCalls, errorCalls,
                   downloadCalls, outcome, okBefore, failedFast>>

\* imgdl(sources, {...}).then(resolve, rejects): the promise of the runner
\* follows the one of imgdl, unless onError has rejected it before.
RunnerThen ==
    /\ options.onError = "runner"
    /\ pc = "running"
    /\ promise # "pending"
    /\ run = "pending"
    /\ run' = promise
    /\ runReason' = reason
    /\ UNCHANGED <<Inputs, CommandLine, Single, errorLog, exitCode, disk, pc, k, countNames,
                   img, phase, slot, queue, pending, intervalCount, aborted,
                   promise, reason, images, idleWait, successCalls, errorCalls,
                   downloadCalls, outcome, okBefore, failedFast>>

\* nothing is left to run: no task is queued or in flight
Drained ==
    \/ pc = "done"
    \/ pc = "running" /\ \A i \in Items : phase[i] \in {"unparsed", "settled", "cancelled"}

\* The process ends when the runner has settled and nothing is left to run.
ProcessExits ==
    /\ options.onError = "runner"
    /\ exitCode = <<>>
    /\ run # "pending"
    /\ Drained
    /\ exitCode' = <<ExitCode(run, runReason)>>
    /\ UNCHANGED <<Inputs, CommandLine, Single, errorLog, run, runReason, disk, pc, k,
                   countNames, img, phase, slot, queue, pending, intervalCount,
                   aborted, promise, reason, images, idleWait, successCalls,
                   errorCalls, downloadCalls, outcome, okBefore, failedFast>>

\* img-dl <url>... : the runner is called with a list of URLs that is not
\* empty and any --step, and a signal of its own that SIGINT aborts.
InitCli ==
    \E urls \in SeqsUpTo(Urls, MaxItems) \ {<<>>}, st \in Steps :
        InitState(urls, OptionsOf(st, EmptyName, "runner", "active"), {}, "runner")

NextCli ==
    \/ Runner
    \/ ForEach
    \/ OnIdle
    \/ \E i \in Items : DirectoryFails(i)
    \/ \E i \in Items : OpenStreams(i)
    \/ \E i \in Items : StreamFails(i)
    \/ \E i \in Items : StreamEnds(i)
    \/ Abort
    \/ OnInterval
    \/ RunnerThen
    \/ ProcessExits

SpecCli == InitCli /\ [][NextCli]_vars

\* --------------------------------------------------- generateDownloadUrls
PlainUrl == <<"http://h/a.jpg">>
TemplateUrl == <<"http://h/img-", Placeholder, ".jpg">>
TemplateTwice == <<"http://h/", Placeholder, "/img-", Placeholder, ".jpg">>

\* --start and --end: left out, or a number
Indexes == {<<>>} \cup {<<n>> : n \in -1..MaxIndex}

\* generateDownloadUrls(urls, flags) is called directly, with up to two
\* URLs, with or without a placeholder, and any flags.
InitUrls ==
    \E inp \in SeqsUpTo({PlainUrl, TemplateUrl, TemplateTwice}, 2),
       inc \in BOOLEAN, st \in Indexes, en \in Indexes :
        InitStateWith(<<>>, OptionsOf(<<>>, EmptyName, "returns", "active"), {},
                      "generate", inp,
                      [increment |-> inc, start |-> st, end |-> en])

\* One call of generateDownloadUrls(urls, flags)
Generate ==
    /\ pc = "generate"
    /\ sources' = generateDownloadUrls(input, flags)
    /\ pc' = "generated"
    /\ UNCHANGED <<Inputs, input, flags, Cli, Single, disk, k, countNames, img,
                   phase, slot, queue, pending, intervalCount, aborted, promise,
                   reason, images, idleWait, successCalls, errorCalls,
                   downloadCalls, outcome, okBefore, failedFast>>

NextUrls == Generate

SpecUrls == InitUrls /\ [][NextUrls]_vars

\* -------------------------------------------------------- parseImageParams
FileImage1 == PathOf(Cwd, AddSuffix(PlainName(DEFAULT_NAME), 1), DEFAULT_EXTENSION)
FileAPng == PathOf(Cwd, PlainName("a"), "png")

\* parseImageParams(url, options) is called directly, with any URL, name,
\* extension and directory, and any files in the working directory.
InitParse ==
    \E u \in {UrlA, UrlImage, UrlNoExt, UrlBad, UrlFtp, UrlPdf, UrlUpper},
       nm \in {EmptyName, PlainName("a"), AddSuffix(PlainName("a"), 1),
               AddSuffix(PlainName("a"), 2), PlainName("a/b"), PlainName("a:b"),
               PlainName("a "), PlainName("test.jpg"), PlainName(NoBreakSpace)},
       e \in {"", "png", "PNG", "txt", ".png"},
       d \in {"", "out", "images/file.jpg"},
       files \in SUBSET {FileA, FileA1, FileA2, FileImage, FileImage1, FileAPng} :
        InitState(<<u>>,
                  [OptionsOf(<<>>, nm, "returns", "active")
                      EXCEPT !.extension = e, !.directory = d],
                  files, "parse")

\* One call of parseImageParams(url, options): its result (the target, or
\* the ArgumentError it throws) and what it leaves in the caller's options.
ParseCall ==
    /\ pc = "parse"
    /\ Len(calls) < MaxCalls
    /\ LET r == parseImageParams(url[1], options, disk)
       IN /\ calls' = Append(calls, r)
          /\ disk' = FilesAfterParse(disk, r)
    /\ options' = OptionsAfterParse(url[1], options)
    /\ UNCHANGED <<url, existing, given, Cli, CommandLine, pc, k, countNames, img, phase, slot, queue,
                   pending, intervalCount, aborted, promise, reason, images,
                   idleWait, successCalls, errorCalls, downloadCalls, outcome,
                   okBefore, failedFast, dl>>

NextParse == ParseCall

SpecParse == InitParse /\ [][NextParse]_vars

\* ------------------------------------------------------ imgdl(url), download
\* what the operating system answers a directory call that fails
OsErrors == {"EACCES: permission denied", "ENOTDIR: not a directory"}

\* Faulty variant: a DirectoryError with a message of its own
DirectoryErrorGeneric(osMessage) == "The directory cannot be used"

\* new DirectoryError((error as Error).message): the message it carries
DirectoryErrorMessage(osMessage) == osMessage

\* Faulty variant: the file is left where it is
RemoveFileKept(files, p) == files

\* fs.promises.rm(img.path, { force: true })
RemoveFile(files, p) == files \ {p}

\* Faulty variant: the outcome is routed the way the bulk download does it
SingleOutcomeRouted(error) ==
    IF error = None
    THEN [promise |-> "resolved", reason |-> None, onSuccess |-> 1, onError |-> 0]
    ELSE [promise |-> "resolved", reason |-> None, onSuccess |-> 0, onError |-> 1]

\* return download(parseImageParams(url, options), ...): the promise of
\* imgdl is the promise of download (or rejects with what parseImageParams
\* threw); no callback of the options is called.
SingleOutcome(error) ==
    IF error = None
    THEN [promise |-> "resolved", reason |-> None, onSuccess |-> 0, onError |-> 0]
    ELSE [promise |-> "rejected", reason |-> error, onSuccess |-> 0, onError |-> 0]

\* The promise of imgdl(url) settles; it resolves with img (item 1).
SingleSettles(error) ==
    LET o == SingleOutcome(error)
    IN /\ promise' = Settle(promise, o.promise)
       /\ reason' = o.reason
       /\ images' = IF o.promise = "resolved" /\ error = None THEN <<1>> ELSE images
       /\ successCalls' = [successCalls EXCEPT ![1] = @ + o.onSuccess]
       /\ errorCalls' = [errorCalls EXCEPT ![1] = @ + o.onError]
       /\ pc' = "done"

Batch == <<k, countNames, phase, slot, queue, pending, intervalCount, aborted,
           idleWait, downloadCalls, outcome, okBefore, failedFast, calls>>

Unsettled == <<pc, promise, reason, images, successCalls, errorCalls>>

\* imgdl(url, options) with one URL: parseImageParams, then download begins
\* with fs.promises.access(img.directory).
SingleCall ==
    /\ pc = "single"
    /\ LET r == parseImageParams(url[1], options, disk)
       IN IF IsError(r)
          THEN /\ dl' = [dl EXCEPT !.stage = "done", !.error = "ArgumentError"]
               /\ SingleSettles("ArgumentError")
               /\ UNCHANGED img
          ELSE /\ img' = [img EXCEPT ![1] = r]
               /\ dl' = [dl EXCEPT !.stage = "access"]
               /\ pc' = "download"
               /\ UNCHANGED <<promise, reason, images, successCalls, errorCalls>>
    /\ options' = OptionsAfterParse(url[1], options)
    /\ UNCHANGED <<url, existing, given, Cli, CommandLine, disk, Batch>>

\* await fs.promises.access(img.directory): the directory is there or not
AccessDirectory ==
    /\ pc = "download"
    /\ dl.stage = "access"
    /\ \E there \in BOOLEAN :
        dl' = [dl EXCEPT !.stage = IF there THEN "check" ELSE "mkdir"]
    /\ UNCHANGED <<Inputs, CommandLine, Cli, disk, img, Batch, Unsettled>>

\* await fs.promises.mkdir(img.directory, { recursive: true })
MakeDirectory ==
    /\ pc = "download"
    /\ dl.stage = "mkdir"
    /\ \/ /\ dl' = [dl EXCEPT !.stage = "check"]
          /\ UNCHANGED Unsettled
       \/ \E e \in OsErrors :
          /\ dl' = [dl EXCEPT !.stage = "done", !.error = "DirectoryError",
                              !.oserror = e, !.message = DirectoryErrorMessage(e)]
          /\ SingleSettles("DirectoryError")
    /\ UNCHANGED <<Inputs, CommandLine, Cli, disk, img, Batch>>

\* await fs.promises.access(img.directory, R_OK | W_OK); when it passes,
\* got.stream(img.url, ...) issues the request, fs.createWriteStream(img.path)
\* creates the file and the listeners are set.
CheckDirectory ==
    /\ pc = "download"
    /\ dl.stage = "check"
    /\ \/ /\ dl' = [dl EXCEPT !.stage = "request", !.requests = 1]
          /\ disk' = disk \cup {img[1].path}
          /\ UNCHANGED Unsettled
       \/ \E e \in OsErrors :
          /\ dl' = [dl EXCEPT !.stage = "done", !.error = "DirectoryError",
                              !.oserror = e, !.message = DirectoryErrorMessage(e)]
          /\ SingleSettles("DirectoryError")
          /\ UNCHANGED disk
    /\ UNCHANGED <<Inputs, CommandLine, Cli, img, Batch>>

\* got sends the request again after a failure it may retry, up to the
\* retry limit (options.maxRetry, 2 when left out).
Retry ==
    /\ pc = "download"
    /\ dl.stage = "request"
    /\ dl.requests < 1 + DEFAULT_MAX_RETRY
    /\ dl' = [dl EXCEPT !.requests = @ + 1]
    /\ UNCHANGED <<Inputs, CommandLine, Cli, disk, img, Batch, Unsettled>>

\* The 'response' event, for a response with a successful status:
\*   "image": Content-Type starts with image/: 'error' is no longer listened
\*            to and the pipeline to the file begins;
\*   "html", "none": another Content-Type or none at all:
\*            fetchStream.destroy(new Error('The response is not an image.')),
\*            which the 'error' listener gets.
Response ==
    /\ pc = "download"
    /\ dl.stage = "request"
    /\ \E r \in {"image", "html", "none"} :
        dl' = IF r = "image"
              THEN [dl EXCEPT !.stage = "piping", !.response = r]
              ELSE [dl EXCEPT !.stage = "cleanup", !.response = r,
                              !.error = "NotImageError"]
    /\ UNCHANGED <<Inputs, CommandLine, Cli, disk, img, Batch, Unsettled>>

\* The 'error' event before any response is handed over: a status that is
\* not successful ("404": got raises HTTPError and emits no 'response'), or
\* no response at all (network failure, timeout, abort).
RequestFails ==
    /\ pc = "download"
    /\ dl.stage = "request"
    /\ \E r \in {"404", None} :
        dl' = [dl EXCEPT !.stage = "cleanup", !.response = r,
                         !.error = IF r = None THEN "RequestError" ELSE "HTTPError"]
    /\ UNCHANGED <<Inputs, CommandLine, Cli, disk, img, Batch, Unsettled>>

\* pipePromise.then(() => resolve(img))
PipelineEnds ==
    /\ pc = "download"
    /\ dl.stage = "piping"
    /\ dl' = [dl EXCEPT !.stage = "done"]
    /\ SingleSettles(None)
    /\ UNCHANGED <<Inputs, CommandLine, Cli, disk, img, Batch>>

\* pipePromise.catch(onError): reading, transforming or writing fails
PipelineFails ==
    /\ pc = "download"
    /\ dl.stage = "piping"
    /\ dl' = [dl EXCEPT !.stage = "cleanup", !.error = "PipelineError"]
    /\ UNCHANGED <<Inputs, CommandLine, Cli, disk, img, Batch, Unsettled>>

\* onError: await fs.promises.rm(img.path, { force: true }); reject(error)
RemoveDone ==
    /\ pc = "download"
    /\ dl.stage = "cleanup"
    /\ disk' = RemoveFile(disk, img[1].path)
    /\ dl' = [dl EXCEPT !.stage = "done"]
    /\ SingleSettles(dl.error)
    /\ UNCHANGED <<Inputs, CommandLine, Cli, img, Batch>>

\* onError: fs.promises.rm rejects; the async listener ends there, reject is
\* never called and the promise of download stays pending.
RemoveFails ==
    /\ pc = "download"
    /\ dl.stage = "cleanup"
    /\ \E e \in OsErrors : dl' = [dl EXCEPT !.stage = "unhandled", !.oserror = e]
    /\ UNCHANGED <<Inputs, CommandLine, Cli, disk, img, Batch, Unsettled>>

\* imgdl(url, options) is called with one URL, with or without an extension
\* to convert to, with or without a file of the URL's name in the way.
InitSingle ==
    \E u \in {UrlA, UrlNoExt, UrlBad, UrlFtp, UrlPdf},
       e \in {"", "png", "PNG", "txt"},
       handler \in {"returns", "throws"},
       files \in SUBSET {FileA, FileAPng} :
        InitState(<<u>>,
                  [OptionsOf(<<>>, EmptyName, handler, "active")
                      EXCEPT !.extension = e],
                  files, "single")

NextSingle ==
    \/ SingleCall
    \/ AccessDirectory
    \/ MakeDirectory
    \/ CheckDirectory
    \/ Retry
    \/ Response
    \/ RequestFails
    \/ PipelineEnds
    \/ PipelineFails
    \/ RemoveDone
    \/ RemoveFails

SpecSingle == InitSingle /\ [][NextSingle]_vars

\* ================================================================== claims
Parsed(i) == phase[i] # "unparsed"

\* the items whose download was started and has not settled
InFlight == {i \in Items : phase[i] \in {"directory", "streaming", "aborting"}}

AllValid == \A i \in Items : url[i].parses /\ url[i].protocol \in {"http:", "https:"}

\* the case of C1: valid URLs, a signal that is not aborted, handlers that return
C1_Case == AllValid /\ ~aborted /\ options.onError = "returns"

\* C1: in a batch of valid URLs whose signal is not aborted and whose handlers
\* return, a failing download does not make the promise reject: every item
\* that settled was reported by exactly the one callback of its outcome
\* (onSuccess for a download that succeeded, onError for one that failed),
\* the promise resolves only when every item has settled, and it has
\* resolved once they all have.
C1_PartialFailure ==
    C1_Case =>
        /\ promise # "rejected"
        /\ \A i \in Items : phase[i] = "settled" =>
            /\ outcome[i] = "ok" => successCalls[i] = 1 /\ errorCalls[i] = 0
            /\ outcome[i] = "error" => successCalls[i] = 0 /\ errorCalls[i] = 1
        /\ promise = "resolved" => \A i \in Items : phase[i] = "settled"
        /\ (pc = "running" /\ \A i \in Items : phase[i] = "settled")
                => promise = "resolved"

C1_Witness ==
    /\ C1_Case
    /\ promise = "resolved"
    /\ \E i, j \in Items : outcome[i] = "error" /\ outcome[j] = "ok"

\* C2: every item is handed to download at most once, and every item whose
\* download was started and has ended got exactly one callback, onSuccess
\* or onError.
C2_ExactlyOneOutcome ==
    \A i \in Items :
        /\ downloadCalls[i] <= 1
        /\ phase[i] = "settled" => successCalls[i] + errorCalls[i] = 1

\* C3: at every moment at most `step` downloads (5 when step is left out)
\* have started and not settled.
C3_AtMostStep ==
    Cardinality(InFlight) <= (IF options.step = <<>> THEN 5 ELSE options.step[1])

C3_Witness ==
    /\ options.step = <<>>
    /\ Cardinality(InFlight) = 5
    /\ queue # <<>>

\* C4: when the signal is aborted while imgdl(array) runs (valid URLs,
\* handlers that return), the promise does not reject.
C4_AbortResolves ==
    (options.signal = "active" /\ aborted /\ AllValid
        /\ options.onError = "returns") => promise # "rejected"

\* the file of every item that succeeded before the abort is on disk
C5_FilesKept == \A i \in okBefore : img[i].path \in disk

\* a step that leaves the signal aborted starts no download
C5_NoStart == aborted' => downloadCalls' = downloadCalls

\* C5: once the signal is aborted no download is started any more, and the
\* file of every item that succeeded before the abort stays on disk, so it
\* is there when the batch settles.
C5_AbortStopsAdmission == []C5_FilesKept /\ [][C5_NoStart]_vars

C5_Witness ==
    /\ options.signal = "active"
    /\ aborted
    /\ okBefore # {}
    /\ promise # "pending"
    /\ \E i \in Items : phase[i] = "cancelled"
    /\ \E i \in Items : phase[i] = "settled" /\ outcome[i] = "error"
                        /\ i \notin slot /\ errorCalls[i] = 1

\* C6: when the promise has resolved, no download is queued or in flight,
\* every item has had its callback, and the list it resolved with holds
\* exactly the images onSuccess was called with.
C6_ResolvesLast ==
    promise = "resolved" =>
        /\ InFlight = {}
        /\ queue = <<>>
        /\ \A i \in Items : successCalls[i] + errorCalls[i] >= 1
        /\ \A i \in Items :
            Cardinality({n \in 1..Len(images) : images[n] = i}) = successCalls[i]

\* C7: under fairness the promise settles, aborted or not, empty list or not.
C7_Settles == <>(promise # "pending")

C7_Witness ==
    /\ promise # "pending"
    /\ options.signal = "active"
    /\ aborted
    /\ \E i \in Items : phase[i] = "cancelled"

\* C8: the targets one call hands to download have pairwise distinct paths.
C8_DistinctPaths ==
    \A i, j \in Items :
        (i < j /\ Parsed(i) /\ Parsed(j)) => img[i].path # img[j].path

C8_Witness ==
    \E i, j \in Items :
        /\ i < j /\ Parsed(i) /\ Parsed(j)
        /\ url[i] = url[j]
        /\ existing # {}
        /\ HasSuffix(img[i].name)
        /\ img[j].name = AddSuffix(img[i].name, 1)

\* C9: the final path of an item is never a file that was in the directory
\* before the batch started.
C9_NoOverwrite == \A i \in Items : Parsed(i) => img[i].path \notin existing

\* the items before j that resolve to the name and extension of item j
SameBefore(j) ==
    {i \in 1..(j - 1) :
        /\ ResolveName(url[i], options) = ResolveName(url[j], options)
        /\ ResolveExtension(url[i], options) = ResolveExtension(url[j], options)}

Returned(n) == n \in 1..Len(calls) /\ ~IsError(calls[n])

\* C11: when parseImageParams returns a target, no file exists at
\* target.path at that moment, and target.path is the directory joined with
\* `name.extension` of the target.
C11_PathFree ==
    \A n \in 1..Len(calls) : Returned(n) =>
        /\ ~ExistsSync(disk, calls[n].path)
        /\ calls[n].path.dir = calls[n].directory
        /\ calls[n].path.name = calls[n].name
        /\ calls[n].path.ext = calls[n].extension

C11_Witness ==
    /\ Returned(1)
    /\ PathOf(calls[1].directory, ResolveName(url[1], options), calls[1].extension)
            \in disk
    /\ PathOf(calls[1].directory,
              AddSuffix(ResolveName(url[1], options), 1), calls[1].extension)
            \in disk
    /\ calls[1].path \notin disk

\* the numbers n for which `stem (n).ext` is not a file of the directory
FreeNumbers(stem, r, from) ==
    {n \in from..(from + Cardinality(disk)) :
        ~ExistsSync(disk, PathOf(r.directory, AddSuffix(stem, n), r.extension))}

Smallest(S) == CHOOSE n \in S : \A m \in S : n <= m

\* C12: when the file `name.ext` exists, the name returned is `name (n)` for
\* the smallest n >= 1 with no file `name (n).ext`; a name that ends in
\* ` (k)` itself has that suffix replaced by the smallest free number above
\* k, never a second suffix appended.
C12_SmallestSuffix ==
    \A c \in 1..Len(calls) : Returned(c) =>
        LET r == calls[c]
            nm == ResolveName(url[1], options)
        IN ExistsSync(disk, PathOf(r.directory, nm, r.extension)) =>
            IF HasSuffix(nm)
            THEN r.name = AddSuffix(StripSuffix(nm),
                    Smallest(FreeNumbers(StripSuffix(nm), r, nm.sfx[Len(nm.sfx)] + 1)))
            ELSE r.name = AddSuffix(nm, Smallest(FreeNumbers(nm, r, 1)))

\* `image.jpg` and `image (1).jpg` are there: the name is `image (2)`
C12_Witness ==
    /\ Returned(1)
    /\ url[1] = UrlImage
    /\ options.name = EmptyName
    /\ {FileImage, FileImage1} \subseteq disk
    /\ calls[1].name = AddSuffix(PlainName(DEFAULT_NAME), 2)

\* C13: two calls of parseImageParams with the same url and options and no
\* change of the files in between return the same target.
C13_SameTarget ==
    \A m, n \in 1..Len(calls) : calls[m] = calls[n]

C13_Witness ==
    /\ Len(calls) >= 2
    /\ Returned(1)
    /\ existing # {}
    /\ HasSuffix(calls[2].name)
    /\ calls[2].extension = "png"
    /\ options.extension = "png"

C19_NotImageRejects ==
    dl.response \in {"404", "html", "none"} =>
        /\ dl.stage \in {"cleanup", "unhandled", "done"}
        /\ dl.error \in {"HTTPError", "NotImageError"}
        /\ promise # "resolved"
        /\ dl.stage = "done" => promise = "rejected" /\ reason = dl.error
        /\ promise = "rejected" => ~ExistsSync(disk, img[1].path)

\* a page is answered where a file of the target's name was written before
C19_Witness ==
    /\ dl.response = "html"
    /\ promise = "rejected"
    /\ reason = "NotImageError"
    /\ dl.requests >= 1
    /\ img[1].path \notin disk

\* C20: download makes the directory and checks that it can be read and
\* written before it issues the request: until the check has passed no
\* request is issued and no file is created, and when the directory cannot
\* be made or used download rejects with a DirectoryError that carries the
\* message of the operating system, with no request issued and no file
\* created.
C20_DirectoryFirst ==
    /\ dl.stage \in {"access", "mkdir", "check"} =>
            dl.requests = 0 /\ disk = existing
    /\ dl.error = "DirectoryError" =>
        /\ promise = "rejected"
        /\ reason = "DirectoryError"
        /\ dl.message = dl.oserror
        /\ dl.requests = 0
        /\ disk = existing
        /\ ~ExistsSync(disk, img[1].path)

C20_Witness ==
    /\ dl.error = "DirectoryError"
    /\ promise = "rejected"
    /\ dl.message = "EACCES: permission denied"
    /\ dl.requests = 0

\* ------------------------------------------------------ more of imgdl(url[])
Invalid(i) == ~url[i].parses \/ url[i].protocol \notin {"http:", "https:"}

\* C15: an item whose URL is invalid does not make the batch promise
\* reject: it gets exactly one onError call and the promise resolves with
\* the results of the other items (with an empty list when every URL is
\* invalid).
C15_InvalidReported ==
    (~aborted /\ options.onError = "returns") =>
        /\ promise # "rejected"
        /\ \A i \in Items : Invalid(i) => errorCalls[i] <= 1
        /\ promise = "resolved" =>
            /\ \A i \in Items : Invalid(i) => errorCalls[i] = 1
            /\ (\A i \in Items : Invalid(i)) => images = <<>>

\* C16: once an item of the batch has failed with DirectoryError, or the
\* batch with ArgumentError, no download is started any more.
C16_FailFast ==
    [][(failedFast' \/ reason' = "ArgumentError")
            => downloadCalls' = downloadCalls]_vars

\* the case of C17: valid URLs, a signal that is not aborted, an onError
\* that throws
C17_Case == AllValid /\ ~aborted /\ options.onError = "throws"

\* C17: when onError throws while it handles the failure of an item, the
\* batch promise rejects with what it threw, and it rejects for nothing
\* else.
C17_HandlerThrowRejects ==
    C17_Case =>
        /\ (\E i \in Items : errorCalls[i] >= 1) =>
                promise = "rejected" /\ reason = "HandlerError"
        /\ promise = "rejected" => \E i \in Items : errorCalls[i] >= 1

C17_Witness ==
    /\ C17_Case
    /\ promise = "rejected"
    /\ reason = "HandlerError"
    /\ \E i \in Items : errorCalls[i] = 1
    /\ \E i \in Items : outcome[i] = "ok"
    /\ InFlight # {}

\* what an item resolves to when nothing is in its way
ChosenName(i) ==
    IF url[i].name # EmptyName THEN url[i].name
    ELSE IF options.name # EmptyName THEN options.name
    ELSE IF url[i].ext # "" THEN PlainName(url[i].base)
    ELSE PlainName(DEFAULT_NAME)

ChosenExtension(i) ==
    IF url[i].extension # "" THEN url[i].extension
    ELSE IF options.extension # "" THEN options.extension
    ELSE IF url[i].ext # "" THEN url[i].ext
    ELSE DEFAULT_EXTENSION

ChosenDirectory(i) ==
    IF url[i].directory # "" THEN url[i].directory
    ELSE IF options.directory # "" THEN options.directory
    ELSE Cwd

C21_PartialFileRemoved ==
    dl.error = "PipelineError" =>
        /\ dl.response = "image"
        /\ dl.stage \in {"cleanup", "unhandled", "done"}
        /\ promise # "resolved"
        /\ dl.stage = "done" => promise = "rejected"
        /\ promise = "rejected" =>
            /\ reason = "PipelineError"
            /\ ~ExistsSync(disk, img[1].path)

\* an image is answered and converted to png, the pipeline breaks
C21_Witness ==
    /\ dl.error = "PipelineError"
    /\ dl.response = "image"
    /\ promise = "rejected"
    /\ img[1].extension = "png"
    /\ img[1].path \notin disk

C23_NotImageUrlThrows ==
    (url[1].ext # "" /\ ToLowerCase(url[1].ext) \notin imageExtensions) =>
        \A n \in 1..Len(calls) : calls[n] = ArgumentError

\* http://h/a.pdf, with an extension to convert to
C23_Witness ==
    /\ Len(calls) >= 1
    /\ url[1] = UrlPdf
    /\ options.extension = "png"
    /\ options.name = EmptyName
    /\ calls[1] = ArgumentError

\* the names of the model that hold a path separator
HasSeparator(name) == name.base = "a/b"

\* img.name.toLowerCase().split('.').pop() is an image extension
EndsInImageExtension(name) == name.base = "test.jpg" /\ name.sfx = <<>>

\* a URL parseImageParams takes: http(s), with an image suffix or none
UrlAccepted(u) == u.parses /\ ProtocolAllowed(u) /\ OriginalSupported(u)

\* the other reasons parseImageParams has to refuse a call
Refused(u, opts) == ~UrlAccepted(u) \/ ~ExtensionSupported(opts)

\* C24: parseImageParams throws ArgumentError when sanitizing changes
\* options.name (a path separator, a reserved character, a space at the
\* end) and when options.name ends in an image extension (`test.jpg`); the
\* name of a returned target holds no path separator.
C24_NameRefused ==
    \A n \in 1..Len(calls) :
        /\ sanitize(options.name) # options.name => calls[n] = ArgumentError
        /\ EndsInImageExtension(options.name) => calls[n] = ArgumentError
        /\ Returned(n) => ~HasSeparator(calls[n].name)

\* path.parse(directory): base differs from name, the last component of the
\* directory has an extension of its own
ContainsFilename(d) == d = "images/file.jpg"

\* C26: parseImageParams throws ArgumentError when the last component of
\* options.directory looks like a file name (`images/file.jpg`), and takes
\* a path that names directories only.
C26_DirectoryOnly ==
    \A n \in 1..Len(calls) :
        /\ ContainsFilename(options.directory) => calls[n] = ArgumentError
        /\ (~ContainsFilename(options.directory) /\ NameAllowed(options)
                /\ ~Refused(url[1], options))
            => Returned(n) /\ calls[n].directory = ResolveDirectory(options)

\* ------------------------------------- parseImageParams: the extension chosen
\* the extensions of the model that hold a dot
HasDot(e) == e = ".png"

\* the image extensions parseImageParams supports
SupportedExtensions == sharpExtensions \cup imageExtensions

FallbackName(u) ==
    IF u.ext # "" THEN PlainName(OriginalName(u)) ELSE PlainName("image")

FallbackExtension(u) == IF u.ext # "" THEN OriginalExtension(u) ELSE "jpg"

C28_OptionsUnchanged ==
    Len(calls) >= 1 => options = given /\ disk = existing

\* ----------------------------------------------------------- the command line
\* the errors that end the run
Fatal == {"ArgumentError", "DirectoryError"}

\* the lines of error.log that are about item i
LinesOf(log, i) == Cardinality({l \in 1..Len(log) : log[l].item = i})

\* the download of item i fails in this step, with a DirectoryError
\* (the directory) or with another error (the request, the pipeline)
FailsFatally(i) == errorCalls'[i] = errorCalls[i] + 1 /\ phase[i] = "directory"

FailsOtherwise(i) ==
    errorCalls'[i] = errorCalls[i] + 1 /\ phase[i] \in {"streaming", "aborting"}

\* C29: in the runner of the command line every item that fails with an
\* error other than ArgumentError and DirectoryError adds exactly one line
\* to error.log and does not make the run reject; an ArgumentError or a
\* DirectoryError is never written to error.log and makes the run reject
\* with that error.
C29_ErrorLog ==
    [][/\ \A i \in Items :
            /\ FailsOtherwise(i) =>
                /\ LinesOf(errorLog', i) = LinesOf(errorLog, i) + 1
                /\ Len(errorLog') = Len(errorLog) + 1
            /\ FailsFatally(i) =>
                /\ errorLog' = errorLog
                /\ run' = "rejected"
                /\ runReason' \in Fatal
            /\ LinesOf(errorLog', i) <= 1
       /\ \A l \in 1..Len(errorLog') : errorLog'[l].error \notin Fatal
       /\ run' = "rejected" => runReason' \in Fatal]_vars

\* C30: the process of the command line ends with an exit code that is not
\* zero whenever the run fails with an ArgumentError or a DirectoryError,
\* and with zero when only downloads of items failed.
C30_ExitCode ==
    exitCode # <<>> =>
        (exitCode # <<0>> <=> (run = "rejected" /\ runReason \in Fatal))

\* ---------------------------------------------- generateDownloadUrls claims
Generated == pc = "generated"

\* C31: in increment mode a call without the end index fails with
\* ArgumentError; no URL is generated without it.
C31_EndRequired ==
    (Generated /\ flags.increment /\ flags.end = <<>>) => sources = ArgumentError

\* where the first placeholder of a URL is
FirstPlaceholder(u) ==
    CHOOSE m \in 1..Len(u) :
        u[m] = Placeholder /\ \A l \in 1..(m - 1) : u[l] # Placeholder

C33_AdmissionOrder ==
    \A i, j \in Items :
        (i < j /\ downloadCalls[j] > 0) => downloadCalls[i] > 0

\* three items, item 3 has ended while item 1 and item 2 are still under way
C33_Witness ==
    /\ Len(url) = 3
    /\ phase[3] = "settled"
    /\ phase[1] = "streaming"
    /\ phase[2] \in {"directory", "streaming"}
    /\ \A i \in Items : downloadCalls[i] = 1

\* the phases of a download that has not got past its first await
NotResumed == {"unparsed", "queued", "directory", "cancelled"}

\* C34: in imgdl(url[]) the names of all items are resolved and counted
\* within the one synchronous run of url.forEach, before the download of any
\* item creates or writes a file: every resolution sees the directory as it
\* was when imgdl was called, and no read or write of the name counter
\* falls between the steps of a download.
C34_ResolvedBeforeWrites ==
    /\ [](pc = "forEach" =>
            /\ disk = existing
            /\ \A i \in Items : phase[i] \in NotResumed)
    /\ [][/\ (img' # img \/ countNames' # countNames) =>
                /\ pc = "forEach"
                /\ disk = existing
                /\ disk' = disk
          /\ disk' # disk => pc = "running"]_vars

\* the last item is being resolved while the downloads of the first two
\* have been called
C34_Witness ==
    /\ pc = "forEach"
    /\ Len(url) = 3
    /\ k = 3
    /\ downloadCalls[1] = 1 /\ downloadCalls[2] = 1
    /\ phase[1] = "directory" /\ phase[2] = "directory"
    /\ countNames # <<>>
    /\ existing # {}

\* C35: once the promise of imgdl(url[]) has settled, resolved or rejected,
\* no onSuccess and no onError is called any more.
C35_NoCallbackAfterSettled ==
    [][promise # "pending" =>
          /\ successCalls' = successCalls
          /\ errorCalls' = errorCalls]_vars

\* C36: a download that fails removes no file that was at img.path before
\* the download was called.  In imgdl(url[]) every download is called after
\* imgdl itself, so a file that was there when imgdl was called and has been
\* there since is removed by no step.
C36_ExistingFileKept ==
    [][\A p \in existing : p \in disk => p \in disk']_vars

\* C37: the promise of download settles once the request has given a response
\* or an error, also when the removal of the partial file fails: when no step
\* of download is left, its promise has been resolved or rejected.
C37_DownloadSettles ==
    dl.stage \in {"done", "unhandled"} => promise # "pending"

\* the number a name ends in, 0 for a name with no ` (k)`
SuffixNumber(name) == IF HasSuffix(name) THEN name.sfx[Len(name.sfx)] ELSE 0

\* the name the collision loop holds after n passes
RECURSIVE Candidate(_, _)
Candidate(name, n) ==
    IF n = 0 THEN name ELSE Increment(Candidate(name, n - 1))

====
